---------------------------- MODULE Spec2Model ----------------------------
(***************************************************************************)
(* A model of the URL Builder of src/builder.go: the Builder's fields, its *)
(* chained setters and Build, with the parts of Go's strings, path and     *)
(* net/url packages that Build calls (Go 1.23, the version the README      *)
(* names).                                                                 *)
(*                                                                         *)
(* A Go string is a sequence of one-character strings over printable       *)
(* ASCII: "a:1" is <<"a", ":", "1">>.                                      *)
(***************************************************************************)
EXTENDS Integers, Sequences, FiniteSets, TLC

VARIABLES scheme, domain, port, credentials, path, query, anchor, ret

fields == <<scheme, domain, port, credentials, path, query, anchor>>
vars == <<scheme, domain, port, credentials, path, query, anchor, ret>>

---------------------------------------------------------------------------
(* Characters: printable ASCII, 0x20 .. 0x7E, in code order (the grave     *)
(* accent, 0x60, which no string literal of the language can hold, is      *)
(* written <0x60>).                                                        *)

Printable ==
    <<" ", "!", "\"", "#", "$", "%", "&", "'", "(", ")", "*", "+", ",", "-", ".", "/",
      "0", "1", "2", "3", "4", "5", "6", "7", "8", "9", ":", ";", "<", "=", ">", "?",
      "@", "A", "B", "C", "D", "E", "F", "G", "H", "I", "J", "K", "L", "M", "N", "O",
      "P", "Q", "R", "S", "T", "U", "V", "W", "X", "Y", "Z", "[", "\\", "]", "^", "_",
      "<0x60>", "a", "b", "c", "d", "e", "f", "g", "h", "i", "j", "k", "l", "m", "n", "o",
      "p", "q", "r", "s", "t", "u", "v", "w", "x", "y", "z", "{", "|", "}", "~">>

Code(c) == 31 + (CHOOSE i \in 1..Len(Printable) : Printable[i] = c)

Chr(n) == IF n \in 32..126 THEN Printable[n - 31] ELSE "<byte>"

LowerChars == {Printable[i] : i \in 66..91}
UpperChars == {Printable[i] : i \in 34..59}
DigitChars == {Printable[i] : i \in 17..26}
AlphaChars == LowerChars \cup UpperChars
HexChars == DigitChars \cup {"A", "B", "C", "D", "E", "F", "a", "b", "c", "d", "e", "f"}

upperhex == <<"0", "1", "2", "3", "4", "5", "6", "7", "8", "9", "A", "B", "C", "D", "E", "F">>

unhex(c) ==
    IF c \in DigitChars THEN Code(c) - 48
    ELSE IF c \in UpperChars THEN Code(c) - 65 + 10
    ELSE Code(c) - 97 + 10

ToLowerChar(c) == IF c \in UpperChars THEN Chr(Code(c) + 32) ELSE c

ToLower(s) == [i \in 1..Len(s) |-> ToLowerChar(s[i])]

---------------------------------------------------------------------------
(* Package strings.  Positions are 1-based; 0 stands for Go's -1.          *)

Drop(s, n) == SubSeq(s, n + 1, Len(s))

Take(s, n) == SubSeq(s, 1, n)

HasPrefix(s, p) == Len(p) <= Len(s) /\ Take(s, Len(p)) = p

HasSuffix(s, p) == Len(p) <= Len(s) /\ Drop(s, Len(s) - Len(p)) = p

Occurrences(s, sub) == {i \in 1..(Len(s) - Len(sub) + 1) : SubSeq(s, i, i + Len(sub) - 1) = sub}

Contains(s, sub) == Occurrences(s, sub) # {}

Min(S) == CHOOSE m \in S : \A n \in S : m <= n

Max(S) == CHOOSE m \in S : \A n \in S : m >= n

Index(s, sub) == IF Contains(s, sub) THEN Min(Occurrences(s, sub)) ELSE 0

LastIndex(s, sub) == IF Contains(s, sub) THEN Max(Occurrences(s, sub)) ELSE 0

\* strings.Count for a one-character substring.
Count(s, c) == Cardinality({i \in 1..Len(s) : s[i] = c})

\* strings.Cut: the text before and after the first sep, and whether sep was found.
Cut(s, sep) ==
    LET i == Index(s, sep)
    IN  IF i = 0 THEN [before |-> s, after |-> <<>>, found |-> FALSE]
        ELSE [before |-> Take(s, i - 1), after |-> Drop(s, i + Len(sep) - 1), found |-> TRUE]

\* strings.Trim(s, cutset): leading and trailing characters of cutset removed.
Trim(s, cutset) ==
    LET keep == {i \in 1..Len(s) : s[i] \notin cutset}
    IN  IF keep = {} THEN <<>> ELSE SubSeq(s, Min(keep), Max(keep))

RECURSIVE Concat(_)
\* The concatenation of a sequence of strings.
Concat(ss) == IF ss = <<>> THEN <<>> ELSE Head(ss) \o Concat(Tail(ss))

RECURSIVE Itoa(_)
\* fmt's %d of a positive integer.
Itoa(n) == IF n < 10 THEN <<Chr(48 + n)>> ELSE Itoa(n \div 10) \o <<Chr(48 + (n % 10))>>

RECURSIVE StrLess(_, _)
\* Go's < on strings: byte-wise lexicographic.
StrLess(a, b) ==
    IF b = <<>> THEN FALSE
    ELSE IF a = <<>> THEN TRUE
    ELSE IF a[1] # b[1] THEN Code(a[1]) < Code(b[1])
    ELSE StrLess(Tail(a), Tail(b))

---------------------------------------------------------------------------
(* Package net/url: escaping.  A mode is one of "encodePath",              *)
(* "encodePathSegment", "encodeHost", "encodeZone", "encodeUserPassword",  *)
(* "encodeQueryComponent", "encodeFragment".                               *)

Ok(v) == [err |-> "nil", val |-> v]

Fail(e) == [err |-> e, val |-> <<>>]

ReservedChars == {"$", "&", "+", ",", "/", ":", ";", "=", "?", "@"}

HostSubDelims == {"!", "$", "&", "'", "(", ")", "*", "+", ",", ";", "=", ":", "[", "]", "<", ">", "\""}

\* url.shouldEscape
shouldEscape(c, mode) ==
    IF c \in AlphaChars \cup DigitChars THEN FALSE
    ELSE IF mode \in {"encodeHost", "encodeZone"} /\ c \in HostSubDelims THEN FALSE
    ELSE IF c \in {"-", "_", ".", "~"} THEN FALSE
    ELSE IF c \in ReservedChars /\ mode = "encodePath" THEN c = "?"
    ELSE IF c \in ReservedChars /\ mode = "encodePathSegment" THEN c \in {"/", ";", ",", "?"}
    ELSE IF c \in ReservedChars /\ mode = "encodeUserPassword" THEN c \in {"@", "/", "?", ":"}
    ELSE IF c \in ReservedChars /\ mode = "encodeQueryComponent" THEN TRUE
    ELSE IF c \in ReservedChars /\ mode = "encodeFragment" THEN FALSE
    ELSE IF mode = "encodeFragment" /\ c \in {"!", "(", ")", "*"} THEN FALSE
    ELSE TRUE

\* One character as url.escape writes it.
escapeChar(c, mode) ==
    IF c = " " /\ mode = "encodeQueryComponent" THEN <<"+">>
    ELSE IF shouldEscape(c, mode)
         THEN <<"%", upperhex[(Code(c) \div 16) + 1], upperhex[(Code(c) % 16) + 1]>>
         ELSE <<c>>

\* url.escape
escape(s, mode) == Concat([i \in 1..Len(s) |-> escapeChar(s[i], mode)])

RECURSIVE unescape(_, _)
\* url.unescape: the decoded string, or the first malformed escape or forbidden
\* host character.
unescape(s, mode) ==
    IF s = <<>> THEN Ok(<<>>)
    ELSE IF s[1] = "%" THEN
        IF Len(s) < 3 \/ s[2] \notin HexChars \/ s[3] \notin HexChars
        THEN Fail("invalid URL escape")
        ELSE IF mode = "encodeHost" /\ unhex(s[2]) < 8 /\ Take(s, 3) # <<"%", "2", "5">>
        THEN Fail("invalid URL escape")
        ELSE IF /\ mode = "encodeZone"
                /\ Take(s, 3) # <<"%", "2", "5">>
                /\ unhex(s[2]) * 16 + unhex(s[3]) # 32
                /\ shouldEscape(Chr(unhex(s[2]) * 16 + unhex(s[3])), "encodeHost")
        THEN Fail("invalid URL escape")
        ELSE LET rest == unescape(Drop(s, 3), mode)
             IN  IF rest.err # "nil" THEN rest
                 ELSE Ok(<<Chr(unhex(s[2]) * 16 + unhex(s[3]))>> \o rest.val)
    ELSE IF mode \in {"encodeHost", "encodeZone"} /\ s[1] # "+" /\ shouldEscape(s[1], "encodeHost")
    THEN Fail("invalid character in host name")
    ELSE LET rest == unescape(Tail(s), mode)
             c == IF s[1] = "+" /\ mode = "encodeQueryComponent" THEN " " ELSE s[1]
         IN  IF rest.err # "nil" THEN rest ELSE Ok(<<c>> \o rest.val)

\* url.validEncoded
validEncoded(s, mode) ==
    \A i \in 1..Len(s) :
        \/ s[i] \in {"!", "$", "&", "'", "(", ")", "*", "+", ",", ";", "=", ":", "@"}
        \/ s[i] \in {"[", "]", "%"}
        \/ ~shouldEscape(s[i], mode)

\* url.QueryEscape
QueryEscape(s) == escape(s, "encodeQueryComponent")

---------------------------------------------------------------------------
(* Package net/url: the URL value.  User is a pointer: <<>> for nil, else  *)
(* <<Userinfo>>.                                                           *)

EmptyURL ==
    [Scheme |-> <<>>, Opaque |-> <<>>, User |-> <<>>, Host |-> <<>>, Path |-> <<>>,
     RawPath |-> <<>>, OmitHost |-> FALSE, ForceQuery |-> FALSE, RawQuery |-> <<>>,
     Fragment |-> <<>>, RawFragment |-> <<>>]

\* url.UserPassword
UserPassword(username, password) ==
    <<[username |-> username, password |-> password, passwordSet |-> TRUE]>>

\* url.User
User(username) ==
    <<[username |-> username, password |-> <<>>, passwordSet |-> FALSE]>>

\* Userinfo.String
UserinfoString(user) ==
    IF user = <<>> THEN <<>>
    ELSE escape(user[1].username, "encodeUserPassword")
         \o (IF user[1].passwordSet
             THEN <<":">> \o escape(user[1].password, "encodeUserPassword")
             ELSE <<>>)

setDecodedPath(u, p, d) ==
    IF d.err # "nil" THEN [err |-> d.err, val |-> u]
    ELSE [err |-> "nil",
          val |-> [u EXCEPT !.Path = d.val,
                            !.RawPath = IF p = escape(d.val, "encodePath") THEN <<>> ELSE p]]

\* URL.setPath: Path is the decoded path, RawPath the given encoding when it is
\* not the default one.
setPath(u, p) == setDecodedPath(u, p, unescape(p, "encodePath"))

setDecodedFragment(u, f, d) ==
    IF d.err # "nil" THEN [err |-> d.err, val |-> u]
    ELSE [err |-> "nil",
          val |-> [u EXCEPT !.Fragment = d.val,
                            !.RawFragment = IF f = escape(d.val, "encodeFragment") THEN <<>> ELSE f]]

\* URL.setFragment
setFragment(u, f) == setDecodedFragment(u, f, unescape(f, "encodeFragment"))

\* URL.EscapedPath
EscapedPath(u) ==
    IF /\ u.RawPath # <<>>
       /\ validEncoded(u.RawPath, "encodePath")
       /\ unescape(u.RawPath, "encodePath") = Ok(u.Path)
    THEN u.RawPath
    ELSE IF u.Path = <<"*">> THEN <<"*">>
    ELSE escape(u.Path, "encodePath")

\* URL.EscapedFragment
EscapedFragment(u) ==
    IF /\ u.RawFragment # <<>>
       /\ validEncoded(u.RawFragment, "encodeFragment")
       /\ unescape(u.RawFragment, "encodeFragment") = Ok(u.Fragment)
    THEN u.RawFragment
    ELSE escape(u.Fragment, "encodeFragment")

---------------------------------------------------------------------------
(* Package net/url: Parse.  A printable string holds no control byte, so   *)
(* parse's stringContainsCTLByte test never fires; Build calls Parse, for  *)
(* which viaRequest is false.                                              *)

RECURSIVE getSchemeAt(_, _)
getSchemeAt(rawURL, i) ==
    IF i > Len(rawURL) THEN [err |-> "nil", scheme |-> <<>>, rest |-> rawURL]
    ELSE IF rawURL[i] \in AlphaChars THEN getSchemeAt(rawURL, i + 1)
    ELSE IF rawURL[i] \in DigitChars \cup {"+", "-", "."} THEN
        IF i = 1 THEN [err |-> "nil", scheme |-> <<>>, rest |-> rawURL]
        ELSE getSchemeAt(rawURL, i + 1)
    ELSE IF rawURL[i] = ":" THEN
        IF i = 1 THEN [err |-> "missing protocol scheme", scheme |-> <<>>, rest |-> <<>>]
        ELSE [err |-> "nil", scheme |-> Take(rawURL, i - 1), rest |-> Drop(rawURL, i)]
    ELSE [err |-> "nil", scheme |-> <<>>, rest |-> rawURL]

\* url.getScheme
getScheme(rawURL) == getSchemeAt(rawURL, 1)

\* url.validOptionalPort
validOptionalPort(p) ==
    \/ p = <<>>
    \/ p[1] = ":" /\ \A i \in 2..Len(p) : p[i] \in DigitChars

\* url.parseHost, an IP-literal with a zone: the three parts decoded.
joinZoneHost(host1, host2, host3) ==
    IF host1.err # "nil" THEN host1
    ELSE IF host2.err # "nil" THEN host2
    ELSE IF host3.err # "nil" THEN host3
    ELSE Ok(host1.val \o host2.val \o host3.val)

\* url.parseHost, given the places of the last "]", of the last ":" and of the
\* zone's "%25".
parseHostAt(host, close, colon, zone) ==
    IF HasPrefix(host, <<"[">>) /\ close = 0 THEN Fail("missing ']' in host")
    ELSE IF HasPrefix(host, <<"[">>) /\ ~validOptionalPort(Drop(host, close))
    THEN Fail("invalid port after host")
    ELSE IF HasPrefix(host, <<"[">>) /\ zone > 0
    THEN joinZoneHost(unescape(Take(host, zone - 1), "encodeHost"),
                      unescape(SubSeq(host, zone, close - 1), "encodeZone"),
                      unescape(Drop(host, close - 1), "encodeHost"))
    ELSE IF ~HasPrefix(host, <<"[">>) /\ colon # 0 /\ ~validOptionalPort(Drop(host, colon - 1))
    THEN Fail("invalid port after host")
    ELSE unescape(host, "encodeHost")

zoneAt(host, close) == Index(Take(host, close - 1), <<"%", "2", "5">>)

\* url.parseHost
parseHost(host) ==
    parseHostAt(host, LastIndex(host, <<"]">>), LastIndex(host, <<":">>),
                zoneAt(host, LastIndex(host, <<"]">>)))

\* url.validUserinfo
validUserinfo(s) ==
    \A i \in 1..Len(s) :
        s[i] \in AlphaChars \cup DigitChars
                 \cup {"-", ".", "_", ":", "~", "!", "$", "&", "'", "(", ")", "*", "+", ",", ";",
                       "=", "%", "@"}

NoAuthority(e) == [err |-> e, user |-> <<>>, host |-> <<>>]

\* url.parseAuthority, the user of a userinfo: found tells whether it holds a ":".
userOf(host, found, name, pass) ==
    IF name.err # "nil" THEN NoAuthority(name.err)
    ELSE IF ~found THEN [err |-> "nil", user |-> User(name.val), host |-> host]
    ELSE IF pass.err # "nil" THEN NoAuthority(pass.err)
    ELSE [err |-> "nil", user |-> UserPassword(name.val, pass.val), host |-> host]

cutUser(host, c) ==
    userOf(host, c.found, unescape(c.before, "encodeUserPassword"),
           unescape(c.after, "encodeUserPassword"))

\* url.parseAuthority, given the place i of the last "@" and the parsed host h.
parseUserinfo(h, i, userinfo) ==
    IF h.err # "nil" THEN NoAuthority(h.err)
    ELSE IF i = 0 THEN [err |-> "nil", user |-> <<>>, host |-> h.val]
    ELSE IF ~validUserinfo(userinfo) THEN NoAuthority("net/url: invalid userinfo")
    ELSE cutUser(h.val, Cut(userinfo, <<":">>))

parseAuthorityAt(authority, i) ==
    parseUserinfo(parseHost(Drop(authority, i)), i, Take(authority, i - 1))

\* url.parseAuthority: [err, user, host]
parseAuthority(authority) == parseAuthorityAt(authority, LastIndex(authority, <<"@">>))

\* url.parse, the authority a parsed: the URL with its user, host and path.
parseWithAuthority(u, a, pathRest) ==
    IF a.err # "nil" THEN [err |-> a.err, val |-> EmptyURL]
    ELSE setPath([u EXCEPT !.User = a.user, !.Host = a.host], pathRest)

\* url.parse, rest led by "//": the authority up to the next "/" (at slash, if
\* any), then the path.
parseSlashes(u, rest, slash) ==
    parseWithAuthority(u,
                       parseAuthority(IF slash = 0 THEN Drop(rest, 2) ELSE SubSeq(rest, 3, slash + 1)),
                       IF slash = 0 THEN <<>> ELSE Drop(rest, slash + 1))

\* url.parse, after the scheme and the query are split off: u holds them, rest is
\* what remains.
parseRest(u, rest) ==
    IF ~HasPrefix(rest, <<"/">>) /\ u.Scheme # <<>>
    THEN [err |-> "nil", val |-> [u EXCEPT !.Opaque = rest]]
    ELSE IF ~HasPrefix(rest, <<"/">>) /\ Contains(Cut(rest, <<"/">>).before, <<":">>)
    THEN [err |-> "first path segment in URL cannot contain colon", val |-> EmptyURL]
    ELSE IF (u.Scheme # <<>> \/ ~HasPrefix(rest, <<"/", "/", "/">>)) /\ HasPrefix(rest, <<"/", "/">>)
    THEN parseSlashes(u, rest, Index(Drop(rest, 2), <<"/">>))
    ELSE IF u.Scheme # <<>> /\ HasPrefix(rest, <<"/">>)
    THEN setPath([u EXCEPT !.OmitHost = TRUE], rest)
    ELSE setPath(u, rest)

\* url.parse, the query split off: a lone trailing "?" forces an empty query.
parseQuery(sch, rest, force, q) ==
    parseRest([EmptyURL EXCEPT !.Scheme = ToLower(sch),
                               !.ForceQuery = force,
                               !.RawQuery = IF force THEN <<>> ELSE q.after],
              IF force THEN Take(rest, Len(rest) - 1) ELSE q.before)

parseScheme(s) ==
    IF s.err # "nil" THEN [err |-> s.err, val |-> EmptyURL]
    ELSE parseQuery(s.scheme, s.rest,
                    HasSuffix(s.rest, <<"?">>) /\ Count(s.rest, "?") = 1,
                    Cut(s.rest, <<"?">>))

\* url.parse with viaRequest false: [err, val]
parse(rawURL) ==
    IF rawURL = <<"*">> THEN [err |-> "nil", val |-> [EmptyURL EXCEPT !.Path = <<"*">>]]
    ELSE parseScheme(getScheme(rawURL))

parseFragment(r, frag) ==
    IF r.err # "nil" THEN r
    ELSE IF frag = <<>> THEN r
    ELSE setFragment(r.val, frag)

cutFragment(c) == parseFragment(parse(c.before), c.after)

\* url.Parse: the fragment is cut off and set after the rest is parsed.
Parse(rawURL) == cutFragment(Cut(rawURL, <<"#">>))

stripBrackets(h) ==
    IF HasPrefix(h, <<"[">>) /\ HasSuffix(h, <<"]">>) THEN SubSeq(h, 2, Len(h) - 1) ELSE h

splitHostAt(host, colon) ==
    stripBrackets(IF colon # 0 /\ validOptionalPort(Drop(host, colon - 1))
                  THEN Take(host, colon - 1) ELSE host)

\* URL.Hostname (url.splitHostPort's host): a valid trailing port and the brackets
\* removed.
Hostname(u) == splitHostAt(u.Host, LastIndex(u.Host, <<":">>))

\* URL.String, what precedes the path: the scheme and the authority.
StringHead(u) ==
    (IF u.Scheme # <<>> THEN u.Scheme \o <<":">> ELSE <<>>)
    \o (IF (u.Scheme # <<>> \/ u.Host # <<>> \/ u.User # <<>>)
           /\ ~(u.OmitHost /\ u.Host = <<>> /\ u.User = <<>>)
        THEN (IF u.Host # <<>> \/ u.Path # <<>> \/ u.User # <<>> THEN <<"/", "/">> ELSE <<>>)
             \o (IF u.User # <<>> THEN UserinfoString(u.User) \o <<"@">> ELSE <<>>)
             \o (IF u.Host # <<>> THEN escape(u.Host, "encodeHost") ELSE <<>>)
        ELSE <<>>)

\* URL.String, the path p written after the head buf.
StringPath(u, buf, p) ==
    buf
    \o (IF p # <<>> /\ p[1] # "/" /\ u.Host # <<>> THEN <<"/">> ELSE <<>>)
    \o (IF buf = <<>> /\ ~(p # <<>> /\ p[1] # "/" /\ u.Host # <<>>)
           /\ Contains(Cut(p, <<"/">>).before, <<":">>)
        THEN <<".", "/">> ELSE <<>>)
    \o p

\* URL.String
String(u) ==
    (IF u.Opaque # <<>>
     THEN (IF u.Scheme # <<>> THEN u.Scheme \o <<":">> ELSE <<>>) \o u.Opaque
     ELSE StringPath(u, StringHead(u), EscapedPath(u)))
    \o (IF u.ForceQuery \/ u.RawQuery # <<>> THEN <<"?">> \o u.RawQuery ELSE <<>>)
    \o (IF u.Fragment # <<>> THEN <<"#">> \o EscapedFragment(u) ELSE <<>>)

---------------------------------------------------------------------------
(* Package path, and URL.JoinPath.                                         *)

RECURSIVE SplitSlash(_)
\* The elements of p between its slashes (strings.Split(p, "/")).
SplitSlash(p) ==
    LET c == Cut(p, <<"/">>)
    IN  IF ~c.found THEN <<p>> ELSE <<c.before>> \o SplitSlash(c.after)

RECURSIVE JoinSlash(_)
\* strings.Join(elems, "/")
JoinSlash(elems) ==
    IF elems = <<>> THEN <<>>
    ELSE IF Len(elems) = 1 THEN elems[1]
    ELSE elems[1] \o <<"/">> \o JoinSlash(Tail(elems))

RECURSIVE CleanElems(_, _, _)
\* The elements path.Clean keeps: empty and "." elements dropped, ".." removing
\* the element before it, or dropped at the root.
CleanElems(elems, out, rooted) ==
    IF elems = <<>> THEN out
    ELSE LET e == Head(elems)
             next == IF e = <<>> \/ e = <<".">> THEN out
                     ELSE IF e # <<".", ".">> THEN Append(out, e)
                     ELSE IF out # <<>> /\ out[Len(out)] # <<".", ".">> THEN Take(out, Len(out) - 1)
                     ELSE IF rooted THEN out
                     ELSE Append(out, e)
         IN  CleanElems(Tail(elems), next, rooted)

\* path.Clean
Clean(p) ==
    LET rooted == HasPrefix(p, <<"/">>)
        kept == JoinSlash(CleanElems(SplitSlash(p), <<>>, rooted))
    IN  IF rooted THEN <<"/">> \o kept
        ELSE IF kept = <<>> THEN <<".">>
        ELSE kept

RECURSIVE JoinBuf(_, _)
\* path.Join's buffer: the elements joined by "/", leading empty ones skipped.
JoinBuf(elem, buf) ==
    IF elem = <<>> THEN buf
    ELSE IF buf = <<>> /\ Head(elem) = <<>> THEN JoinBuf(Tail(elem), buf)
    ELSE JoinBuf(Tail(elem), (IF buf # <<>> THEN buf \o <<"/">> ELSE buf) \o Head(elem))

\* path.Join
Join(elem) ==
    IF \A i \in 1..Len(elem) : elem[i] = <<>> THEN <<>> ELSE Clean(JoinBuf(elem, <<>>))

setJoined(u, last, joined) ==
    setPath(u, IF HasSuffix(last, <<"/">>) /\ ~HasSuffix(joined, <<"/">>)
               THEN joined \o <<"/">> ELSE joined).val

joinAll(u, rel, all) ==
    setJoined(u, all[Len(all)], IF rel THEN Tail(Join(all)) ELSE Join(all))

joinFrom(u, e0, elem) ==
    joinAll(u, ~HasPrefix(e0, <<"/">>),
            <<IF HasPrefix(e0, <<"/">>) THEN e0 ELSE <<"/">> \o e0>> \o elem)

\* URL.JoinPath: u's path with elem joined to it and cleaned, a trailing slash
\* of the last element kept.
JoinPath(u, elem) == joinFrom(u, EscapedPath(u), elem)

---------------------------------------------------------------------------
(* Package net/url: Values, a map from a key to its values.                *)

RECURSIVE SortedKeys(_)
\* slices.Sort of a set of keys.
SortedKeys(S) ==
    IF S = {} THEN <<>>
    ELSE LET k == CHOOSE k \in S : \A j \in S \ {k} : StrLess(k, j)
         IN  <<k>> \o SortedKeys(S \ {k})

RECURSIVE EncodeKey(_, _)
\* The "key=value" pairs of one key, in the order of its values.
EncodeKey(k, vs) ==
    IF vs = <<>> THEN <<>>
    ELSE <<QueryEscape(k) \o <<"=">> \o QueryEscape(Head(vs))>> \o EncodeKey(k, Tail(vs))

RECURSIVE JoinAmp(_)
JoinAmp(pairs) ==
    IF pairs = <<>> THEN <<>>
    ELSE IF Len(pairs) = 1 THEN pairs[1]
    ELSE pairs[1] \o <<"&">> \o JoinAmp(Tail(pairs))

RECURSIVE EncodeKeys(_, _)
EncodeKeys(v, keys) ==
    IF keys = <<>> THEN <<>> ELSE EncodeKey(Head(keys), v[Head(keys)]) \o EncodeKeys(v, Tail(keys))

\* Values.Encode: the pairs of every key, keys sorted, joined by "&".
Encode(v) == JoinAmp(EncodeKeys(v, SortedKeys(DOMAIN v)))

---------------------------------------------------------------------------
(* The Builder (src/builder.go).  credentials is a pointer: <<>> for nil,  *)
(* else <<[user, password]>>.  query maps each key present to its values.  *)
(* ret is what the latest call returned: the Builder itself (New and the   *)
(* setters), or Build's (string, error).                                   *)

http == <<"h", "t", "t", "p">>

RetBuilder == [kind |-> "builder", url |-> <<>>, err |-> "nil"]

RetError(e) == [kind |-> "result", url |-> <<>>, err |-> e]

RetURL(s) == [kind |-> "result", url |-> s, err |-> "nil"]

\* The Builder as a value.
B ==
    [scheme |-> scheme, domain |-> domain, port |-> port, credentials |-> credentials,
     path |-> path, query |-> query, anchor |-> anchor]

\* New
Init ==
    /\ scheme = http
    /\ domain = <<>>
    /\ port = 0
    /\ credentials = <<>>
    /\ path = <<>>
    /\ query = <<>>
    /\ anchor = <<>>
    /\ ret = RetBuilder

WithScheme(s) ==
    /\ scheme' = Trim(s, {":", "/"})
    /\ ret' = RetBuilder
    /\ UNCHANGED <<domain, port, credentials, path, query, anchor>>

WithDomain(d) ==
    /\ domain' = d
    /\ ret' = RetBuilder
    /\ UNCHANGED <<scheme, port, credentials, path, query, anchor>>

WithPort(p) ==
    /\ port' = p
    /\ ret' = RetBuilder
    /\ UNCHANGED <<scheme, domain, credentials, path, query, anchor>>

WithCredentials(user, password) ==
    /\ credentials' = <<[user |-> user, password |-> password]>>
    /\ ret' = RetBuilder
    /\ UNCHANGED <<scheme, domain, port, path, query, anchor>>

WithPath(elements) ==
    /\ path' = path \o elements
    /\ ret' = RetBuilder
    /\ UNCHANGED <<scheme, domain, port, credentials, query, anchor>>

\* b.query[key]: the values of a key, nil for a key not in the map.
Values(q, key) == IF key \in DOMAIN q THEN q[key] ELSE <<>>

\* A WithQuery that would replace the values the key holds.
WithQueryOverwrite(key, values) ==
    /\ query' = [k \in DOMAIN query \cup {key} |-> IF k = key THEN values ELSE query[k]]
    /\ ret' = RetBuilder
    /\ UNCHANGED <<scheme, domain, port, credentials, path, anchor>>

WithQuery(key, values) ==
    /\ query' = [k \in DOMAIN query \cup {key} |->
                    IF k = key THEN Values(query, key) \o values ELSE query[k]]
    /\ ret' = RetBuilder
    /\ UNCHANGED <<scheme, domain, port, credentials, path, anchor>>

WithAnchor(a) ==
    /\ anchor' = Trim(a, {"#", "/"})
    /\ ret' = RetBuilder
    /\ UNCHANGED <<scheme, domain, port, credentials, path, query>>

\* A check that would let a set port stand in for a missing domain.
MissingDomainUnlessPort(b) == b.domain = <<>> /\ b.port = 0

\* Build, lines 84-86: the domain is required.
MissingDomain(b) == b.domain = <<>>

\* Build, lines 88-91: the text given to url.Parse.
RawUrl(b) ==
    IF ~Contains(b.domain, <<"/", "/">>) THEN b.scheme \o <<":", "/", "/">> \o b.domain
    ELSE b.domain

\* A Build that would keep the host as parsed, the port it carries included.
BaseURLKeepHost(b, u) == [u EXCEPT !.Scheme = b.scheme]

\* Build, lines 97-98: the parsed URL with its host reduced to the host name and
\* the Builder's scheme.
BaseURL(b, u) == [u EXCEPT !.Host = Hostname(u), !.Scheme = b.scheme]

\* Build, line 100: whether a port is set.
PortSet(b) == b.port > 0

\* Build, line 101: whether a set port is rejected.
PortInvalid(b) == b.port > 65535

\* Build, line 105
PortURL(b, u) == [u EXCEPT !.Host = u.Host \o <<":">> \o Itoa(b.port)]

\* Build, lines 108-116: the error of the credentials, "nil" for none.
CredentialsError(b) ==
    IF b.credentials = <<>> THEN "nil"
    ELSE IF b.credentials[1].user = <<>> THEN "user not set"
    ELSE IF b.credentials[1].password = <<>> THEN "password not set"
    ELSE "nil"

\* Build, line 117
CredentialsURL(b, u) ==
    IF b.credentials = <<>> THEN u
    ELSE [u EXCEPT !.User = UserPassword(b.credentials[1].user, b.credentials[1].password)]

\* Build, lines 120-122
PathURL(b, u) == IF Len(b.path) > 0 THEN JoinPath(u, b.path) ELSE u

\* A qVal that would keep the empty key and the empty values.
QValKeepEmpty(b) == b.query

\* Build, lines 124-135: qVal, the non-empty values of the non-empty keys.
QVal(b) ==
    LET nonEmpty(v) == v # <<>>
        kept == {k \in DOMAIN b.query : k # <<>> /\ SelectSeq(b.query[k], nonEmpty) # <<>>}
    IN  [k \in kept |-> SelectSeq(b.query[k], nonEmpty)]

SetRawQuery(u, qVal) == IF DOMAIN qVal # {} THEN [u EXCEPT !.RawQuery = Encode(qVal)] ELSE u

\* Build, lines 137-139
QueryURL(b, u) == SetRawQuery(u, QVal(b))

\* Build, lines 141-143
AnchorURL(b, u) == IF b.anchor # <<>> THEN [u EXCEPT !.Fragment = b.anchor] ELSE u

\* Build, lines 100-145, on the URL u that lines 88-98 made.
BuildURL(b, u) ==
    IF PortSet(b) /\ PortInvalid(b) THEN RetError("port must be in range [1, 65535]")
    ELSE IF CredentialsError(b) # "nil" THEN RetError(CredentialsError(b))
    ELSE RetURL(String(AnchorURL(b, QueryURL(b, PathURL(b, CredentialsURL(b,
                    IF PortSet(b) THEN PortURL(b, u) ELSE u))))))

\* Build, lines 92-98, on what url.Parse returned.
BuildParsed(b, parsed) ==
    IF parsed.err # "nil" THEN RetError(parsed.err)
    ELSE BuildURL(b, BaseURL(b, parsed.val))

\* Build: the (string, error) it returns for the Builder b.
Build(b) ==
    IF MissingDomain(b) THEN RetError("domain is required")
    ELSE BuildParsed(b, Parse(RawUrl(b)))

\* A Build that would use up the path it wrote.
CallBuildConsuming ==
    /\ ret' = Build(B)
    /\ path' = <<>>
    /\ UNCHANGED <<scheme, domain, port, credentials, query, anchor>>

\* A call of Build: the Builder is only read.
CallBuild ==
    /\ ret' = Build(B)
    /\ UNCHANGED fields

---------------------------------------------------------------------------
(* The calls explored.  Every specification starts from New and calls the  *)
(* setters and Build in any order; they differ in the arguments tried.     *)

MaxDomainLen == 4
MaxPathLen == 3
MaxQueryVals == 3

RECURSIVE Strings(_, _)
\* The strings over the characters A of length at most n.
Strings(A, n) ==
    IF n = 0 THEN {<<>>}
    ELSE LET S == Strings(A, n - 1)
         IN  S \cup {Append(t, c) : t \in {x \in S : Len(x) = n - 1}, c \in A}

\* The sequences over S of length lo to hi.
Lists(S, lo, hi) == UNION {[1..n -> S] : n \in lo..hi}

\* The number of values a query holds, over all its keys.
RECURSIVE TotalValues(_, _)
TotalValues(q, keys) ==
    IF keys = {} THEN 0
    ELSE LET k == CHOOSE k \in keys : TRUE
         IN  Len(q[k]) + TotalValues(q, keys \ {k})

SchemeArgs == {<<"s">>, <<"s", ":", "/", "/">>, http}
PortArgs == {-1, 0, 1, 65535, 65536}
UserArgs == {<<>>, <<"u">>, <<"u", "@">>}
PasswordArgs == {<<>>, <<"p">>}
DomainArgs == {<<>>, <<"a">>, <<"a", ".", "b">>}
PathArgs == {<<<<"a">>>>, <<<<"a", " ", "b">>, <<"c">>>>}
QueryKeyArgs == {<<"k">>}
QueryValueArgs == {<<<<"v">>>>}
AnchorArgs == {<<>>, <<"f">>, <<"#", "/", "f">>}

Next ==
    \/ \E s \in SchemeArgs : WithScheme(s)
    \/ \E d \in DomainArgs : WithDomain(d)
    \/ \E p \in PortArgs : WithPort(p)
    \/ \E u \in UserArgs, p \in PasswordArgs : WithCredentials(u, p)
    \/ \E e \in PathArgs : Len(path) + Len(e) <= MaxPathLen /\ WithPath(e)
    \/ \E k \in QueryKeyArgs, v \in QueryValueArgs :
          TotalValues(query, DOMAIN query) + Len(v) <= MaxQueryVals /\ WithQuery(k, v)
    \/ \E a \in AnchorArgs : WithAnchor(a)
    \/ CallBuild

Spec == Init /\ [][Next]_vars

\* Hosts: every short string over the characters the host rules are about, and
\* host names that carry a scheme, a port or both.  Each is given to a Builder
\* whose host is not set yet.
HostChars == {"a", "1", ":", "/", "[", "]"}
CarriedSchemes == {<<>>, <<"f", ":", "/", "/">>}
CarriedPorts == {<<>>, <<":">>, <<":", "8", "0">>}
HostNames == {<<"a">>, <<"a", ".", "b">>}
\* An IPv6 literal, and a text url.Parse reads as a scheme and an opaque part.
LiteralHosts == {<<"[", ":", ":", "1", "]">>}
OpaqueDomains == {<<"a", ":", "a", "/", "/">>}
HostDomainArgs ==
    Strings(HostChars, MaxDomainLen)
    \cup {s \o h \o p : s \in CarriedSchemes, h \in HostNames, p \in CarriedPorts}
    \cup LiteralHosts \cup OpaqueDomains

NextHost ==
    \/ \E d \in HostDomainArgs : domain = <<>> /\ WithDomain(d)
    \/ WithScheme(<<"s", ":", "/", "/">>)
    \/ \E p \in {0, 8080} : WithPort(p)
    \/ WithCredentials(<<"u">>, <<"p">>)
    \/ CallBuild

SpecHost == Init /\ [][NextHost]_vars

\* Paths: segments that are empty, plain, and ended by a slash.
PathSegmentArgs == {<<>>, <<"a">>, <<"b", "/">>}

NextPath ==
    \/ WithDomain(<<"a">>)
    \/ \E e \in Lists(PathSegmentArgs, 1, 2) : Len(path) + Len(e) <= MaxPathLen /\ WithPath(e)
    \/ CallBuild

SpecPath == Init /\ [][NextPath]_vars

\* Queries: an empty key and two keys not in sorted order of insertion; empty,
\* plain and spaced values; calls with no, one and two values.
KeyArgs == {<<>>, <<"k">>, <<"j">>}
ValueArgs == {<<>>, <<"v">>, <<"a", " ", "b">>}

NextQuery ==
    \/ WithDomain(<<"a">>)
    \/ \E k \in KeyArgs, v \in Lists(ValueArgs, 0, 2) :
          TotalValues(query, DOMAIN query) + Len(v) <= MaxQueryVals /\ WithQuery(k, v)
    \/ CallBuild

SpecQuery == Init /\ [][NextQuery]_vars

---------------------------------------------------------------------------
(* The claims.  A claim about what Build returns is read in the states     *)
(* where ret is Build's result for the Builder as it stands.               *)

IsResult == ret.kind = "result"

Succeeded == IsResult /\ ret.err = "nil"

NonEmpty(v) == v # <<>>

\* A plain host name: letters, digits and dots.
IsHostName(h) ==
    h # <<>> /\ \A i \in 1..Len(h) : h[i] \in AlphaChars \cup DigitChars \cup {"."}

IsDigits(t) == \A i \in 1..Len(t) : t[i] \in DigitChars

\* The userinfo encoding of the characters the credentials tried hold.
UserinfoEncoded(t) ==
    Concat([i \in 1..Len(t) |->
              IF t[i] = "@" THEN <<"%", "4", "0">>
              ELSE IF t[i] = ":" THEN <<"%", "3", "A">>
              ELSE <<t[i]>>])

\* "user:password@" for credentials that are set, nothing for none.
ExpectedUserinfo ==
    IF credentials = <<>> THEN <<>>
    ELSE UserinfoEncoded(credentials[1].user) \o <<":">>
         \o UserinfoEncoded(credentials[1].password) \o <<"@">>

(* C1: for every Builder whose host is the empty string, Build returns the *)
(* missing-host error together with the empty string, whatever the scheme, *)
(* port, credentials, path, query and anchor are.                          *)
C1_MissingHost ==
    (IsResult /\ domain = <<>>) => ret = RetError("domain is required")

C1_Witness ==
    /\ IsResult /\ domain = <<>>
    /\ scheme # http /\ port = 1 /\ credentials # <<>> /\ path # <<>>
    /\ DOMAIN query # {} /\ anchor # <<>>

\* A bracketed IPv6 literal: "[", hexadecimal digits and at least two ":", "]".
IsLiteral(h) ==
    /\ Len(h) >= 4 /\ h[1] = "[" /\ h[Len(h)] = "]"
    /\ \A i \in 2..(Len(h) - 1) : h[i] \in HexChars \cup {":"}
    /\ Count(h, ":") >= 2

C3_ForbiddenHostSymbols ==
    (IsResult /\ domain # <<>> /\ (Contains(domain, <<"/">>) \/ Count(domain, ":") = 1))
    => (ret.err # "nil" /\ ret.url = <<>>)

\* The text of d after a scheme and "://" it carries, all of d when it carries none.
AfterCarriedScheme(d) ==
    LET c == Cut(d, <<":", "/", "/">>)
    IN  IF /\ c.found /\ c.before # <<>> /\ c.before[1] \in AlphaChars
           /\ \A i \in 1..Len(c.before) : c.before[i] \in AlphaChars \cup DigitChars
        THEN c.after ELSE d

\* d is a host name that carries a scheme ("s://a"), a port ("a:80") or both.
CarriesSchemeOrPort(d) ==
    LET hp == Cut(AfterCarriedScheme(d), <<":">>)
    IN  /\ AfterCarriedScheme(d) # d \/ hp.found
        /\ IsHostName(hp.before)
        /\ IsDigits(hp.after)

CarriedHostName(d) == Cut(AfterCarriedScheme(d), <<":">>).before

C5_Port ==
    (IsResult /\ IsHostName(domain) /\ port # 0)
    => /\ port \notin 1..65535 => ret = RetError("port must be in range [1, 65535]")
       /\ (port \in 1..65535 /\ ret.err = "nil")
          => HasPrefix(ret.url, scheme \o <<":", "/", "/">> \o ExpectedUserinfo \o domain
                                \o <<":">> \o Itoa(port))

(* C6: once credentials are set, an empty user or an empty password makes  *)
(* Build fail whatever the other fields are; with both non-empty a         *)
(* successful Build has "user:password@", userinfo-encoded, between "://"  *)
(* and the host.                                                           *)
C6_Credentials ==
    (IsResult /\ credentials # <<>>)
    => /\ (credentials[1].user = <<>> \/ credentials[1].password = <<>>) => ret.err # "nil"
       /\ (credentials[1].user # <<>> /\ credentials[1].password # <<>> /\ ret.err = "nil")
          => Contains(ret.url, <<":", "/", "/">> \o ExpectedUserinfo)

(* C7: the URL depends on the path only through its non-empty segments, in *)
(* order: empty segments, wherever they stand, never change what Build     *)
(* returns.                                                                *)
C7_EmptySegmentsIgnored ==
    IsResult => ret = Build([B EXCEPT !.path = SelectSeq(path, NonEmpty)])

\* The form encoding of the values tried: a space is written "+".
FormEncoded(t) == [i \in 1..Len(t) |-> IF t[i] = " " THEN "+" ELSE t[i]]

RECURSIVE ExpectedPairs(_, _)
\* "key=value" for each non-empty value of each key of keys, in order.
ExpectedPairs(q, keys) ==
    IF keys = <<>> THEN <<>>
    ELSE LET k == Head(keys)
             vs == SelectSeq(q[k], NonEmpty)
         IN  [i \in 1..Len(vs) |-> FormEncoded(k) \o <<"=">> \o FormEncoded(vs[i])]
             \o ExpectedPairs(q, Tail(keys))

\* The query of a URL: what stands between its "?" and its "#".
QueryText(url) == Cut(Cut(url, <<"#">>).before, <<"?">>).after

(* C8: WithQuery never overwrites: a call appends its values, in order, to *)
(* those the key holds and leaves the other keys alone, and Build writes   *)
(* the values a key holds as repeated "key=value" pairs in that order (the *)
(* keys in sorted order), so that two calls for a key build the same URL   *)
(* as one call with both values.                                           *)
C8_QueryAppends ==
    [][/\ \A k \in KeyArgs, v \in Lists(ValueArgs, 0, 2) :
            WithQuery(k, v) =>
                /\ DOMAIN query' = DOMAIN query \cup {k}
                /\ query'[k] = Values(query, k) \o v
                /\ \A j \in DOMAIN query \ {k} : query'[j] = query[j]
       /\ (ret'.kind = "result" /\ ret'.err = "nil")
          => QueryText(ret'.url)
               = JoinAmp(ExpectedPairs(query', SortedKeys(DOMAIN query' \ {<<>>})))
      ]_vars

C8_Witness ==
    /\ Succeeded
    /\ Values(query, <<"k">>) = <<<<"v">>, <<"a", " ", "b">>, <<"v">>>>
    /\ QueryText(ret.url)
         = <<"k", "=", "v", "&", "k", "=", "a", "+", "b", "&", "k", "=", "v">>

\* The query without its empty key and its empty values; a key left with no
\* value is no entry.
WithoutEmpty(q) ==
    LET kept == {k \in DOMAIN q : k # <<>> /\ \E i \in 1..Len(q[k]) : q[k][i] # <<>>}
    IN  [k \in kept |-> SelectSeq(q[k], NonEmpty)]

===========================================================================
